---- MODULE Spec2Model ----
(***************************************************************************)
(* The contract-declaration pipeline of starkli: Declare::run              *)
(* (src/subcommands/declare.rs) together with the two Sierra -> CASM       *)
(* compilation strategies (src/compiler.rs).                               *)
(*                                                                         *)
(* One run of `starkli declare` is modelled as a sequential state machine: *)
(* `pc` is the position of the run inside Declare::run (or inside          *)
(* CompilerBinary::compile), the command-line arguments are chosen in Init *)
(* and never change, and every answer of an external collaborator (file    *)
(* system, provider, account, compiler, subprocess) is chosen              *)
(* nondeterministically by the action that issues the request.             *)
(***************************************************************************)
EXTENDS Integers, Sequences, FiniteSets, TLC

(***************************************************************************)
(* Bounds of the model.                                                    *)
(***************************************************************************)
\* Field elements are the integers modulo FieldPrime (the Stark prime
\* 2^251 + 17 * 2^192 + 1 in the program, a small modulus here).
FieldPrime == 11
\* The confirmation poller has no built-in timeout; the model stops
\* answering "pending" after MaxPolls status queries.
MaxPolls == 2

Felt == 0 .. (FieldPrime - 1)

\* Option<T>: None is the empty sequence, Some(x) the one-element sequence.
None == <<>>
Some(x) == <<x>>
IsSome(o) == Len(o) = 1
Unwrap(o) == o[1]

\* Values the command line / the collaborators supply in the model.
ManualFees == {1, FieldPrime - 1}
Nonces == {2}
ClassHashes == {3, 4}
CasmHashes == {5, 6}
TxHashes == {7}
\* --poll-interval in milliseconds (declare.rs:43-49, default 5000).
PollIntervals == {1000, 5000}

(***************************************************************************)
(* FieldElement arithmetic used by the fee buffer.                         *)
(***************************************************************************)
\* FieldElement * FieldElement: multiplication in the prime field.
FeltMul(a, b) == (a * b) % FieldPrime

\* FieldElement::floor_div: integer division of the canonical representatives.
floor_div(a, b) == a \div b

\* declare.rs:74-79, the multiplier pair <<num, denom>>.
fee_multiplier(rpc) == IF rpc THEN <<5, 2>> ELSE <<3, 2>>

\* declare.rs:158 and :221, the buffered max fee for a raw estimate.
buffered_fee(estimated_fee, rpc) ==
    floor_div(FeltMul(estimated_fee, fee_multiplier(rpc)[1]), fee_multiplier(rpc)[2])

(***************************************************************************)
(* Command-line arguments and collaborators' data.                         *)
(***************************************************************************)
\* fee.rs FeeSetting as matched in declare.rs:144-146.
FeeSettings ==
    [kind : {"EstimateOnly", "None"}, fee : {None}]
        \cup [kind : {"Manual"}, fee : {Some(f) : f \in ManualFees}]

\* Fee arguments that self.fee.into_setting() rejects (declare.rs:63).
InvalidFeeArgs == [kind |-> "Invalid", fee |-> None]

is_estimate_only(fs) == fs.kind = "EstimateOnly"

\* casm.rs CasmHashSource as matched in declare.rs:104-129.
CasmHashSources ==
    [kind : {"BuiltInCompiler"}, version : {"V2_1_0", "V2_4_0"}, hash : {None}]
        \cup [kind : {"CompilerBinary", "CasmFile"}, version : {"-"}, hash : {None}]
        \cup [kind : {"Hash"}, version : {"-"}, hash : {Some(h) : h \in CasmHashes}]

\* The artifact file: which of the three document shapes its content
\* deserializes as (unknown fields are ignored by the deserializers, so the
\* shapes are independent), and whether its ABI section has entries.
Artifacts == [sierra : BOOLEAN, casm : BOOLEAN, legacy : BOOLEAN, abi : {<<>>, <<"fn">>}]

NoClass == [kind |-> "none", class_hash |-> None, abi |-> <<>>]

NoDeclaration ==
    [kind |-> "none", class_hash |-> None, abi |-> <<>>,
     casm_class_hash |-> None, nonce |-> None, max_fee |-> None]

\* tempfile::NamedTempFile of CompilerBinary::compile: whether the file is
\* on disk, and the ABI of the class document written to it.
NoFile == [state |-> "none", abi |-> None]

\* std::process::Output of the compiler subprocess.
NoOutput == [status |-> None, stdout |-> "-", hash |-> None]

\* A class as the subject of a logged operation.
AsDeclaration(c) ==
    [kind |-> c.kind, class_hash |-> c.class_hash, abi |-> c.abi,
     casm_class_hash |-> None, nonce |-> None, max_fee |-> None]

NoError == [msg |-> "", status |-> None]
Err(m) == [msg |-> m, status |-> None]

VARIABLES
    simulate, fee_setting, nonce, watch, poll_interval, casm_source, is_rpc, artifact,
    pc, result, error,
    provider, account,
    opens, class, casm_class_hash, declaration,
    ops, stdout, stderr,
    compile_class, input_file, process_output, polls, declaration_tx_hash

args == <<simulate, fee_setting, nonce, watch, poll_interval, casm_source, is_rpc, artifact>>
vars == <<simulate, fee_setting, nonce, watch, poll_interval, casm_source, is_rpc, artifact,
          pc, result, error, provider, account,
          opens, class, casm_class_hash, declaration, ops, stdout, stderr,
          compile_class, input_file, process_output, polls, declaration_tx_hash>>

\* The locals of CompilerBinary::compile and the poller's query count.
compiler == <<compile_class, input_file, process_output>>

Init ==
    /\ simulate \in BOOLEAN
    /\ fee_setting \in FeeSettings \cup {InvalidFeeArgs}
    /\ nonce \in {None} \cup {Some(n) : n \in Nonces}
    /\ watch \in BOOLEAN
    /\ poll_interval \in PollIntervals
    /\ casm_source \in CasmHashSources
    /\ is_rpc \in BOOLEAN
    /\ artifact \in Artifacts
    /\ pc = "into_setting"
    /\ result = "running"
    /\ error = NoError
    /\ provider = FALSE
    /\ account = FALSE
    /\ opens = 0
    /\ class = NoClass
    /\ casm_class_hash = None
    /\ declaration = NoDeclaration
    /\ ops = <<>>
    /\ stdout = <<>>
    /\ stderr = <<>>
    /\ compile_class = NoClass
    /\ input_file = NoFile
    /\ process_output = NoOutput
    /\ polls = 0
    /\ declaration_tx_hash = None

(***************************************************************************)
(* Bookkeeping shared by the actions.                                      *)
(***************************************************************************)
\* One entry of the log of operations issued to the provider / account.
Op(name, d, r, v) == [op |-> name, decl |-> d, ret |-> r, val |-> v]

OpsNamed(name) == {i \in 1 .. Len(ops) : ops[i].op = name}
Count(name) == Cardinality(OpsNamed(name))

Printed(what) == {i \in 1 .. Len(stdout) : stdout[i].what = what}

\* `?` / anyhow::bail!: the run returns Err(e).
Fail(e) ==
    /\ pc' = "done"
    /\ result' = "err"
    /\ error' = e

\* `return Ok(())`.
ReturnOk ==
    /\ pc' = "done"
    /\ result' = "ok"
    /\ error' = error

Goto(l) ==
    /\ pc' = l
    /\ result' = result
    /\ error' = error

(***************************************************************************)
(* Declare::run, declare.rs:60-272.                                        *)
(***************************************************************************)
\* declare.rs:63, self.fee.into_setting()?
IntoSetting ==
    /\ pc = "into_setting"
    /\ IF fee_setting = InvalidFeeArgs
          THEN Fail(Err("invalid fee arguments"))
          ELSE Goto("validate")
    /\ UNCHANGED <<args, provider, account, opens, class, casm_class_hash,
                   declaration, ops, stdout, stderr, compiler, polls, declaration_tx_hash>>

\* The option check of declare.rs:64-66 left out.
ValidateAccepts ==
    /\ pc = "validate"
    /\ Goto("into_provider")
    /\ UNCHANGED <<args, provider, account, opens, class, casm_class_hash,
                   declaration, ops, stdout, stderr, compiler, polls, declaration_tx_hash>>

\* declare.rs:64-66
Validate ==
    /\ pc = "validate"
    /\ IF simulate /\ is_estimate_only(fee_setting)
          THEN Fail(Err("--simulate cannot be used with --estimate-only"))
          ELSE Goto("into_provider")
    /\ UNCHANGED <<args, provider, account, opens, class, casm_class_hash,
                   declaration, ops, stdout, stderr, compiler, polls, declaration_tx_hash>>

\* declare.rs:68
IntoProvider ==
    /\ pc = "into_provider"
    /\ \/ Goto("into_account") /\ provider' = TRUE
       \/ Fail(Err("into_provider")) /\ provider' = provider
    /\ UNCHANGED <<args, account, opens, class, casm_class_hash,
                   declaration, ops, stdout, stderr, compiler, polls, declaration_tx_hash>>

\* declare.rs:70
IntoAccount ==
    /\ pc = "into_account"
    /\ \/ Goto("parse_sierra") /\ account' = TRUE
       \/ Fail(Err("into_account")) /\ account' = account
    /\ UNCHANGED <<args, provider, opens, class, casm_class_hash,
                   declaration, ops, stdout, stderr, compiler, polls, declaration_tx_hash>>

\* The class a successful parse of the artifact yields.
parsed(kind) == [kind |-> kind, class_hash |-> None, abi |-> artifact.abi]

\* class.class_hash()? at declare.rs:89 / 190: the hash of the parsed class
\* (any of ClassHashes), or an error.  The computation is logged with the
\* class it was applied to.
ClassHash(kind) ==
    \/ \E h \in ClassHashes :
          /\ class' = [parsed(kind) EXCEPT !.class_hash = Some(h)]
          /\ ops' = Append(ops, Op("class_hash", AsDeclaration(parsed(kind)), "Ok", Some(h)))
          /\ Goto("check_already_declared")
    \/ /\ class' = parsed(kind)
       /\ ops' = Append(ops, Op("class_hash", AsDeclaration(parsed(kind)), "Err", None))
       /\ Fail(Err("class hash"))

\* declare.rs:85-89: open the file, parse it as SierraClass, hash the class.
ParseSierra ==
    /\ pc = "parse_sierra"
    /\ \/ /\ Fail(Err("io"))
          /\ UNCHANGED <<opens, class, ops>>
       \/ /\ opens' = opens + 1
          /\ IF artifact.sierra
                THEN ClassHash("sierra")
                ELSE /\ Goto("parse_casm")
                     /\ UNCHANGED <<class, ops>>
    /\ UNCHANGED <<args, provider, account, casm_class_hash,
                   declaration, stdout, stderr, compiler, polls, declaration_tx_hash>>

\* The CompiledClass branch of declare.rs:181-185 left out.
ParseCasmAccepts ==
    /\ pc = "parse_casm"
    /\ \/ /\ Fail(Err("io"))
          /\ opens' = opens
       \/ /\ opens' = opens + 1
          /\ Goto("parse_legacy")
    /\ UNCHANGED <<args, provider, account, class, casm_class_hash,
                   declaration, ops, stdout, stderr, compiler, polls, declaration_tx_hash>>

\* declare.rs:181-185: open the file again, parse it as CompiledClass.
ParseCasm ==
    /\ pc = "parse_casm"
    /\ \/ /\ Fail(Err("io"))
          /\ opens' = opens
       \/ /\ opens' = opens + 1
          /\ IF artifact.casm
                THEN Fail(Err("unexpected CASM class"))
                ELSE Goto("parse_legacy")
    /\ UNCHANGED <<args, provider, account, class, casm_class_hash,
                   declaration, ops, stdout, stderr, compiler, polls, declaration_tx_hash>>

\* The last branch taking whatever is left as a Legacy class.
ParseLegacyAcceptsAll ==
    /\ pc = "parse_legacy"
    /\ \/ /\ Fail(Err("io"))
          /\ UNCHANGED <<opens, class, ops>>
       \/ /\ opens' = opens + 1
          /\ ClassHash("legacy")
    /\ UNCHANGED <<args, provider, account, casm_class_hash,
                   declaration, stdout, stderr, compiler, polls, declaration_tx_hash>>

\* declare.rs:186-190 and 244-246: open the file again, parse it as
\* LegacyContractClass, hash the class; bail when it is not one either.
ParseLegacy ==
    /\ pc = "parse_legacy"
    /\ \/ /\ Fail(Err("io"))
          /\ UNCHANGED <<opens, class, ops>>
       \/ /\ opens' = opens + 1
          /\ IF artifact.legacy
                THEN ClassHash("legacy")
                ELSE /\ Fail(Err("failed to parse contract artifact"))
                     /\ UNCHANGED <<class, ops>>
    /\ UNCHANGED <<args, provider, account, casm_class_hash,
                   declaration, stdout, stderr, compiler, polls, declaration_tx_hash>>

\* check_already_declared, declare.rs:278-290: the value returned for an
\* answer of provider.get_class(pending, class_hash).
GetClassAnswers == {"Ok", "ClassHashNotFound", "OtherError"}

\* check_already_declared with the existing class not short-circuiting.
check_result_ignores_existing(answer) ==
    CASE answer = "Ok" -> "Ok(false)"
      [] answer = "ClassHashNotFound" -> "Ok(false)"
      [] OTHER -> "Err"

\* check_already_declared failing open: every error read as "not found".
check_result_fails_open(answer) ==
    CASE answer = "Ok" -> "Ok(true)"
      [] OTHER -> "Ok(false)"

check_result(answer) ==
    CASE answer = "Ok" -> "Ok(true)"
      [] answer = "ClassHashNotFound" -> "Ok(false)"
      [] OTHER -> "Err"

\* Hash resolution entered for either class kind.
after_check_always_resolves(kind) == "into_casm_hash_source"

\* Where the run continues after Ok(false): the Sierra branch resolves the
\* compiled-class hash (declare.rs:96), the Legacy branch goes straight to
\* the declaration (declare.rs:197-205).
after_check(kind) == IF kind = "sierra" THEN "into_casm_hash_source" ELSE "declare"

\* declare.rs:92-94 / 193-195 calling check_already_declared, declare.rs:274-291.
check_already_declared ==
    /\ pc = "check_already_declared"
    /\ \E answer \in GetClassAnswers :
        /\ ops' = Append(ops, Op("get_class", AsDeclaration(class), answer, None))
        /\ CASE check_result(answer) = "Ok(true)" ->
                  /\ stderr' = Append(stderr, "already declared")
                  /\ stdout' = Append(stdout, [what |-> "class_hash", val |-> class.class_hash])
                  /\ ReturnOk
             [] check_result(answer) = "Ok(false)" ->
                  /\ Goto(after_check(class.kind))
                  /\ UNCHANGED <<stdout, stderr>>
             [] OTHER ->
                  /\ Fail(Err("provider"))
                  /\ UNCHANGED <<stdout, stderr>>
    /\ UNCHANGED <<args, provider, account, opens, class, casm_class_hash, declaration,
                   compiler, polls, declaration_tx_hash>>

\* declare.rs:96-130: self.casm.into_casm_hash_source(&provider).await?,
\* then the progress messages on standard error.
IntoCasmHashSource ==
    /\ pc = "into_casm_hash_source"
    /\ \/ /\ Goto("get_casm_hash")
          /\ stderr' = IF is_estimate_only(fee_setting)
                          THEN stderr
                          ELSE stderr \o <<"Declaring Cairo 1 class", casm_source.kind>>
       \/ /\ Fail(Err("casm source"))
          /\ stderr' = stderr
    /\ UNCHANGED <<args, provider, account, opens, class, casm_class_hash,
                   declaration, ops, stdout, compiler, polls, declaration_tx_hash>>

(***************************************************************************)
(* casm_source.get_casm_hash(&class)?, declare.rs:132, by variant of       *)
(* CasmHashSource.                                                         *)
(***************************************************************************)
\* The copy handed to the compilers with its ABI left in place.
clear_abi_noop(c) == c

\* `let mut class = class.clone(); class.abi.clear();`
\* compiler.rs:49-50 and 95-96: the copy the compilers work on.
clear_abi(c) == [c EXCEPT !.abi = <<>>]

\* Return of get_casm_hash into Declare::run (the `?` of declare.rs:132).
ReturnHash(r) ==
    IF IsSome(r.hash)
      THEN /\ casm_class_hash' = r.hash
           /\ Goto("declare")
      ELSE /\ casm_class_hash' = casm_class_hash
           /\ Fail(r.err)

HashOk(h) == [hash |-> Some(h), err |-> NoError]
HashErr(e) == [hash |-> None, err |-> e]

\* CasmHashSource::Hash: the literal hash, verbatim.
literal_hash(source) == HashOk(Unwrap(source.hash))

GetCasmHashLiteral ==
    /\ pc = "get_casm_hash"
    /\ casm_source.kind = "Hash"
    /\ ops' = Append(ops, Op("get_casm_hash", AsDeclaration(class), "Ok",
                             literal_hash(casm_source).hash))
    /\ ReturnHash(literal_hash(casm_source))
    /\ UNCHANGED <<args, provider, account, opens, class,
                   declaration, stdout, stderr, compiler, polls, declaration_tx_hash>>

\* CasmHashSource::CasmFile: read the file, parse it as a compiled class and
\* hash it; no compilation.
GetCasmHashFile ==
    /\ pc = "get_casm_hash"
    /\ casm_source.kind = "CasmFile"
    /\ \E r \in {HashOk(h) : h \in CasmHashes} \cup {HashErr(Err("casm file"))} :
          /\ ops' = Append(ops, Op("get_casm_hash", AsDeclaration(class),
                                   IF IsSome(r.hash) THEN "Ok" ELSE "Err", r.hash))
          /\ ReturnHash(r)
    /\ UNCHANGED <<args, provider, account, opens, class,
                   declaration, stdout, stderr, compiler, polls, declaration_tx_hash>>

\* BuiltInCompiler::compile clearing the ABI of the caller's class instead of
\* a copy's.
BuiltInCompileInPlace ==
    /\ pc = "get_casm_hash"
    /\ casm_source.kind = "BuiltInCompiler"
    /\ class' = clear_abi(class)
    /\ \E r \in {HashOk(h) : h \in CasmHashes}
                \cup {HashErr(Err(m)) : m \in {"serialize", casm_source.version, "casm class"}} :
          /\ ops' = ops \o
                <<Op("get_casm_hash", AsDeclaration(class), "-", None),
                  Op("BuiltInCompiler::compile", AsDeclaration(clear_abi(class)),
                     IF IsSome(r.hash) THEN "Ok" ELSE "Err", r.hash)>>
          /\ ReturnHash(r)
    /\ UNCHANGED <<args, provider, account, opens,
                   declaration, stdout, stderr, compiler, polls, declaration_tx_hash>>

\* BuiltInCompiler::compile, compiler.rs:45-83: the class is copied and the
\* copy's ABI cleared; the copy is serialized, converted by the compiler of
\* the pinned version, parsed back as CompiledClass and hashed.  Every step
\* but the copy can fail.
BuiltInCompile ==
    /\ pc = "get_casm_hash"
    /\ casm_source.kind = "BuiltInCompiler"
    /\ \E r \in {HashOk(h) : h \in CasmHashes}
                \cup {HashErr(Err(m)) : m \in {"serialize", casm_source.version, "casm class"}} :
          /\ ops' = ops \o
                <<Op("get_casm_hash", AsDeclaration(class), "-", None),
                  Op("BuiltInCompiler::compile", AsDeclaration(clear_abi(class)),
                     IF IsSome(r.hash) THEN "Ok" ELSE "Err", r.hash)>>
          /\ ReturnHash(r)
    /\ UNCHANGED <<args, provider, account, opens, class,
                   declaration, stdout, stderr, compiler, polls, declaration_tx_hash>>

(***************************************************************************)
(* CompilerBinary::compile, compiler.rs:91-124.                            *)
(***************************************************************************)
ExitStatuses == {0, 1}
ProcessStdouts == {"non_utf8", "not_casm", "casm"}

\* The temporary file persisted instead of removed.
KeepInputFile(f) == f

\* The NamedTempFile `input_file` goes out of scope when compile returns:
\* its destructor removes the file from disk.
DropInputFile(f) == IF f.state = "exists" THEN [f EXCEPT !.state = "removed"] ELSE f

\* compile returns r to get_casm_hash, which returns it to Declare::run.
CompileReturn(r) ==
    /\ input_file' = DropInputFile(input_file)
    /\ ops' = Append(ops, Op("CompilerBinary::compile", AsDeclaration(compile_class),
                             IF IsSome(r.hash) THEN "Ok" ELSE "Err", r.hash))
    /\ ReturnHash(r)

\* compiler.rs:95-98: copy the class, clear the copy's ABI, create the
\* temporary file.
CompilerBinaryCreate ==
    /\ pc = "get_casm_hash"
    /\ casm_source.kind = "CompilerBinary"
    /\ compile_class' = clear_abi(class)
    /\ \/ /\ input_file' = [state |-> "exists", abi |-> None]
          /\ ops' = Append(ops, Op("get_casm_hash", AsDeclaration(class), "-", None))
          /\ Goto("compile_write")
          /\ UNCHANGED casm_class_hash
       \/ /\ input_file' = input_file
          /\ ops' = ops \o
                <<Op("get_casm_hash", AsDeclaration(class), "-", None),
                  Op("CompilerBinary::compile", AsDeclaration(clear_abi(class)), "Err", None)>>
          /\ ReturnHash(HashErr(Err("tempfile")))
    /\ UNCHANGED <<args, provider, account, opens, class,
                   declaration, stdout, stderr, process_output, polls, declaration_tx_hash>>

\* compiler.rs:99: serialize the copy into the temporary file.
CompilerBinaryWrite ==
    /\ pc = "compile_write"
    /\ \/ /\ input_file' = [input_file EXCEPT !.abi = Some(compile_class.abi)]
          /\ Goto("compile_run")
          /\ UNCHANGED <<ops, casm_class_hash>>
       \/ CompileReturn(HashErr(Err("serialize")))
    /\ UNCHANGED <<args, provider, account, opens, class,
                   declaration, stdout, stderr, compile_class, process_output, polls,
                   declaration_tx_hash>>

\* compiler.rs:101-108: run the compiler binary on the temporary file's path
\* and wait for its output.
CompilerBinaryRun ==
    /\ pc = "compile_run"
    /\ \/ /\ \E st \in ExitStatuses, out \in ProcessStdouts,
                h \in {None} \cup {Some(x) : x \in CasmHashes} :
                process_output' = [status |-> Some(st), stdout |-> out, hash |-> h]
          /\ ops' = Append(ops, Op("Command",
                          [AsDeclaration(compile_class) EXCEPT !.abi = Unwrap(input_file.abi)],
                          "Ok", None))
          /\ Goto("compile_output")
          /\ UNCHANGED <<input_file, casm_class_hash>>
       \/ /\ \E m \in {"invalid temp file path", "spawn"} : CompileReturn(HashErr(Err(m)))
          /\ UNCHANGED process_output
    /\ UNCHANGED <<args, provider, account, opens, class,
                   declaration, stdout, stderr, compile_class, polls, declaration_tx_hash>>

\* compiler.rs:110-123: what compile returns for the subprocess's output.
compile_output(out) ==
    IF out.status # Some(0)
      THEN HashErr([msg |-> "Sierra compiler process failed with exit code",
                    status |-> out.status])
      ELSE CASE out.stdout = "non_utf8" -> HashErr(Err("utf8"))
             [] out.stdout = "not_casm" -> HashErr(Err("casm class"))
             [] OTHER -> IF IsSome(out.hash)
                           THEN HashOk(Unwrap(out.hash))
                           ELSE HashErr(Err("class hash"))

\* compiler.rs:110-124
CompilerBinaryOutput ==
    /\ pc = "compile_output"
    /\ CompileReturn(compile_output(process_output))
    /\ UNCHANGED <<args, provider, account, opens, class, declaration, stdout, stderr,
                   compile_class, process_output, polls, declaration_tx_hash>>

(***************************************************************************)
(* Declare::run, continued: the declaration, its fee, its submission.      *)
(***************************************************************************)
\* The class hash passed where the compiled-class hash belongs.
new_declaration_swapped(c, casm) ==
    [kind |-> c.kind, class_hash |-> c.class_hash, abi |-> c.abi,
     casm_class_hash |-> IF c.kind = "sierra" THEN c.class_hash ELSE None,
     nonce |-> None, max_fee |-> None]

\* account.declare(class.flatten()?, casm_class_hash), declare.rs:142, and
\* account.declare_legacy(class), declare.rs:205.
new_declaration(c, casm) ==
    [kind |-> c.kind, class_hash |-> c.class_hash, abi |-> c.abi,
     casm_class_hash |-> IF c.kind = "sierra" THEN casm ELSE None,
     nonce |-> None, max_fee |-> None]

\* declare.rs:134-142 (Sierra) and 197-205 (Legacy).
Declare ==
    /\ pc = "declare"
    /\ \/ /\ declaration' = new_declaration(class, casm_class_hash)
          /\ stderr' = IF is_estimate_only(fee_setting)
                          THEN stderr
                          ELSE Append(stderr, IF class.kind = "sierra"
                                                THEN "CASM class hash"
                                                ELSE "Declaring Cairo 0 (deprecated) class")
          /\ Goto("fee")
       \/ /\ class.kind = "sierra"
          /\ Fail(Err("flatten"))
          /\ UNCHANGED <<declaration, stderr>>
    /\ UNCHANGED <<args, provider, account, opens, class, casm_class_hash,
                   ops, stdout, compiler, polls, declaration_tx_hash>>

\* The buffer applied to a manual fee as well.
max_fee_always_buffered(fs, estimated_fee, rpc) ==
    buffered_fee(IF fs.kind = "Manual" THEN Unwrap(fs.fee) ELSE estimated_fee, rpc)

\* declare.rs:144-160 / 207-223: the max fee of the declaration, for the
\* fee setting and (when the fee is not manual) the raw estimate.
max_fee_of(fs, estimated_fee, rpc) ==
    IF fs.kind = "Manual" THEN Unwrap(fs.fee) ELSE buffered_fee(estimated_fee, rpc)

\* The caller's nonce dropped when the max fee is attached.
with_fee_only(d, n, f) == [d EXCEPT !.max_fee = Some(f)]

\* declare.rs:162-166 / 225-229: the nonce override, then the max fee.
with_nonce_and_fee(d, n, f) ==
    [d EXCEPT !.nonce = IF IsSome(n) THEN n ELSE d.nonce, !.max_fee = Some(f)]

\* The early return of estimate-only mode left out.
estimate_never_returns(fs) == FALSE

\* declare.rs:149-155 / 212-218: estimate-only prints the estimate and returns.
estimate_returns(fs) == is_estimate_only(fs)

\* declare.rs:144-166 / 207-229 with FeeSetting::Manual: no estimation.
ManualFee ==
    /\ pc = "fee"
    /\ fee_setting.kind = "Manual"
    /\ declaration' = with_nonce_and_fee(declaration, nonce, max_fee_of(fee_setting, 0, is_rpc))
    /\ Goto("submit")
    /\ UNCHANGED <<args, provider, account, opens, class, casm_class_hash,
                   ops, stdout, stderr, compiler, polls, declaration_tx_hash>>

\* declare.rs:144-166 / 207-229 with FeeSetting::EstimateOnly or ::None:
\* declaration.estimate_fee().await?, answered with an error or with any
\* field element as overall_fee.
EstimateFee ==
    /\ pc = "fee"
    /\ fee_setting.kind # "Manual"
    /\ \/ /\ ops' = Append(ops, Op("estimate_fee", declaration, "Err", None))
          /\ Fail(Err("estimate_fee"))
          /\ UNCHANGED <<declaration, stdout>>
       \/ \E estimated_fee \in Felt :
          /\ ops' = Append(ops, Op("estimate_fee", declaration, "Ok", Some(estimated_fee)))
          /\ IF estimate_returns(fee_setting)
                THEN /\ stdout' = Append(stdout, [what |-> "fee", val |-> Some(estimated_fee)])
                     /\ ReturnOk
                     /\ UNCHANGED declaration
                ELSE /\ declaration' = with_nonce_and_fee(declaration, nonce,
                                            max_fee_of(fee_setting, estimated_fee, is_rpc))
                     /\ Goto("submit")
                     /\ UNCHANGED stdout
    /\ UNCHANGED <<args, provider, account, opens, class, casm_class_hash,
                   stderr, compiler, polls, declaration_tx_hash>>

\* declare.rs:168-178 / 231-241: declaration.simulate(false, false).await?,
\* the trace is converted to JSON and printed.
Simulate ==
    /\ pc = "submit"
    /\ simulate
    /\ \/ /\ ops' = Append(ops, Op("simulate", declaration, "Err", None))
          /\ Fail(Err("simulate"))
          /\ UNCHANGED stdout
       \/ /\ ops' = Append(ops, Op("simulate", declaration, "Ok", None))
          /\ \/ /\ stdout' = Append(stdout, [what |-> "simulation", val |-> None])
                /\ ReturnOk
             \/ /\ Fail(Err("json"))
                /\ UNCHANGED stdout
    /\ UNCHANGED <<args, provider, account, opens, class, casm_class_hash,
                   declaration, stderr, compiler, polls, declaration_tx_hash>>

\* declare.rs:180 / 243: declaration.send().await?.transaction_hash
Send ==
    /\ pc = "submit"
    /\ ~simulate
    /\ \/ /\ ops' = Append(ops, Op("send", declaration, "Err", None))
          /\ Fail(Err("send"))
          /\ UNCHANGED declaration_tx_hash
       \/ \E tx \in TxHashes :
          /\ ops' = Append(ops, Op("send", declaration, "Ok", Some(tx)))
          /\ declaration_tx_hash' = Some(tx)
          /\ Goto("report")
    /\ UNCHANGED <<args, provider, account, opens, class, casm_class_hash,
                   declaration, stdout, stderr, compiler, polls>>

\* The class hash printed without waiting for the poller.
ReportSkipsWatch ==
    /\ pc = "report"
    /\ stderr' = Append(stderr, "Contract declaration transaction")
    /\ Goto("declared")
    /\ UNCHANGED <<args, provider, account, opens, class, casm_class_hash,
                   declaration, ops, stdout, compiler, polls, declaration_tx_hash>>

\* declare.rs:248-257: the transaction hash goes to standard error.
Report ==
    /\ pc = "report"
    /\ IF watch
          THEN /\ stderr' = stderr \o <<"Contract declaration transaction", "Waiting for transaction">>
               /\ Goto("watch_tx")
          ELSE /\ stderr' = Append(stderr, "Contract declaration transaction")
               /\ Goto("declared")
    /\ UNCHANGED <<args, provider, account, opens, class, casm_class_hash,
                   declaration, ops, stdout, compiler, polls, declaration_tx_hash>>

\* utils::watch_tx, called at declare.rs:258-263: the transaction's status
\* is queried; a terminal status ends the wait, a pending one is queried
\* again after the poll interval.
TxStatuses == {"pending", "accepted", "rejected", "error"}

\* The poller giving up the wait on a pending status.
poll_result_returns_on_pending(status) ==
    CASE status = "pending" -> "Ok"
      [] status = "accepted" -> "Ok"
      [] status = "rejected" -> "Err"
      [] OTHER -> "Err"

\* What the poller does with one answer: query again, return Ok, return Err.
poll_result(status) ==
    CASE status = "pending" -> "again"
      [] status = "accepted" -> "Ok"
      [] status = "rejected" -> "Err"
      [] OTHER -> "Err"

\* One status query of the poller and its answer.
watch_tx ==
    /\ pc = "watch_tx"
    /\ polls' = polls + 1
    /\ \E status \in TxStatuses :
          /\ status = "pending" => polls < MaxPolls
          /\ ops' = Append(ops, Op("get_transaction_status", declaration, status,
                                   declaration_tx_hash))
          /\ CASE poll_result(status) = "again" -> Goto("watch_sleep")
               [] poll_result(status) = "Ok" -> Goto("declared")
               [] OTHER -> Fail(Err(IF status = "rejected"
                                      THEN "transaction rejected"
                                      ELSE "provider"))
    /\ UNCHANGED <<args, provider, account, opens, class, casm_class_hash,
                   declaration, stdout, stderr, compiler, declaration_tx_hash>>

\* The poller sleeps for the poll interval before the next query.
watch_tx_sleep ==
    /\ pc = "watch_sleep"
    /\ ops' = Append(ops, Op("sleep", declaration, "Ok", Some(poll_interval)))
    /\ Goto("watch_tx")
    /\ UNCHANGED <<args, provider, account, opens, class, casm_class_hash,
                   declaration, stdout, stderr, compiler, polls, declaration_tx_hash>>

\* declare.rs:266-271: the class hash goes to standard output.
Declared ==
    /\ pc = "declared"
    /\ stderr' = Append(stderr, "Class hash declared:")
    /\ stdout' = Append(stdout, [what |-> "class_hash", val |-> class.class_hash])
    /\ ReturnOk
    /\ UNCHANGED <<args, provider, account, opens, class, casm_class_hash,
                   declaration, ops, compiler, polls, declaration_tx_hash>>

Next ==
    \/ IntoSetting
    \/ Validate
    \/ IntoProvider
    \/ IntoAccount
    \/ ParseSierra
    \/ ParseCasm
    \/ ParseLegacy
    \/ check_already_declared
    \/ IntoCasmHashSource
    \/ GetCasmHashLiteral
    \/ GetCasmHashFile
    \/ BuiltInCompile
    \/ CompilerBinaryCreate
    \/ CompilerBinaryWrite
    \/ CompilerBinaryRun
    \/ CompilerBinaryOutput
    \/ Declare
    \/ ManualFee
    \/ EstimateFee
    \/ Simulate
    \/ Send
    \/ Report
    \/ watch_tx
    \/ watch_tx_sleep
    \/ Declared

Spec == Init /\ [][Next]_vars

TypeOK ==
    /\ pc \in {"into_setting", "validate", "into_provider", "into_account",
               "parse_sierra", "parse_casm", "parse_legacy", "check_already_declared",
               "into_casm_hash_source", "get_casm_hash", "compile_write", "compile_run",
               "compile_output", "declare", "fee", "submit", "report", "watch_tx",
               "watch_sleep", "declared", "done"}
    /\ result \in {"running", "ok", "err"}
    /\ (pc = "done") <=> (result # "running")
    /\ input_file.state \in {"none", "exists", "removed"}

(***************************************************************************)
(* Properties.                                                             *)
(***************************************************************************)
\* Positions of the run before the existence check has been answered.
BeforeCheck ==
    {"into_setting", "validate", "into_provider", "into_account",
     "parse_sierra", "parse_casm", "parse_legacy", "check_already_declared"}

\* The answer get_class gave in this run, "-" when it was not asked.
GetClassAnswer ==
    IF OpsNamed("get_class") = {}
      THEN "-"
      ELSE ops[CHOOSE i \in OpsNamed("get_class") : TRUE].ret

\* Operations of hash resolution, fee resolution and submission.
AfterCheckOps ==
    {"get_casm_hash", "BuiltInCompiler::compile", "CompilerBinary::compile", "Command",
     "estimate_fee", "simulate", "send", "get_transaction_status", "sleep"}

IssuedAfterCheck == {i \in 1 .. Len(ops) : ops[i].op \in AfterCheckOps}

\* C1: in every run, on the Sierra and on the Legacy path, once get_class
\* has answered with a class (Ok), send is never invoked and the run ends
\* successfully.
C1_AlreadyDeclaredNeverSends ==
    GetClassAnswer = "Ok" =>
        /\ class.kind \in {"sierra", "legacy"}
        /\ Count("send") = 0
        /\ pc = "done"
        /\ result = "ok"

\* C1 witness: a Sierra run that would otherwise have sent (manual fee, no
\* simulation) ended at the existence check's Ok answer.
C1_Witness ==
    /\ GetClassAnswer = "Ok"
    /\ class.kind = "sierra"
    /\ fee_setting.kind = "Manual"
    /\ ~simulate
    /\ result = "ok"

\* C2: in every run whose fee setting is estimate-only or whose simulate flag
\* is set, send is never invoked, whatever the class kind and whatever the
\* provider and the account answered.
C2_EstimateAndSimulateNeverSend ==
    (is_estimate_only(fee_setting) \/ simulate) => Count("send") = 0

\* C2 witness: an estimate-only run of a Legacy class has ended successfully
\* after estimate_fee answered and the estimate was printed.
C2_Witness ==
    /\ is_estimate_only(fee_setting)
    /\ class.kind = "legacy"
    /\ Count("estimate_fee") = 1
    /\ Printed("fee") # {}
    /\ result = "ok"

\* C3: the existence check fails closed: when get_class answers with an error
\* other than ClassHashNotFound the run ends with that error and issues no
\* hash resolution, fee estimation, simulation or send; the run is past the
\* check only when the answer was ClassHashNotFound.
C3_CheckFailsClosed ==
    /\ GetClassAnswer = "OtherError" =>
          /\ pc = "done"
          /\ result = "err"
          /\ error = Err("provider")
          /\ IssuedAfterCheck = {}
          /\ casm_class_hash = None
          /\ declaration = NoDeclaration
    /\ (pc \notin BeforeCheck \cup {"done"} \/ IssuedAfterCheck # {}) =>
          GetClassAnswer = "ClassHashNotFound"

\* C3 witness: get_class answered with another error in a run that would
\* otherwise have gone on to estimate and send.
C3_Witness ==
    /\ GetClassAnswer = "OtherError"
    /\ fee_setting.kind = "None"
    /\ ~simulate
    /\ pc = "done"

\* The raw estimate estimate_fee returned in this run (when it returned one).
Estimates == {ops[i].val : i \in {j \in OpsNamed("estimate_fee") : ops[j].ret = "Ok"}}

\* C4: with the automatic fee setting, for every raw estimate E returned by
\* estimate_fee, the max fee attached to the declaration is floor(E * 5 / 2)
\* with the RPC dialect and floor(E * 3 / 2) otherwise, on the Sierra and on
\* the Legacy path alike.  (The claim as stated; the field multiplication of
\* declare.rs:158 / 221 wraps around for large E.)
C4_BufferedFeeIsFloor ==
    (fee_setting.kind = "None" /\ IsSome(declaration.max_fee)) =>
        \A e \in Estimates :
            declaration.max_fee =
                Some(IF is_rpc THEN (Unwrap(e) * 5) \div 2 ELSE (Unwrap(e) * 3) \div 2)

\* C5 as stated: with a manual fee F, the class not found and no simulation,
\* the finished run has issued no estimate_fee, has sent exactly one
\* declaration with max fee F and has printed the class hash.
C5_ManualFeeAlwaysSent ==
    (/\ fee_setting.kind = "Manual"
     /\ ~simulate
     /\ GetClassAnswer = "ClassHashNotFound"
     /\ pc = "done") =>
        /\ Count("estimate_fee") = 0
        /\ Count("send") = 1
        /\ \A i \in OpsNamed("send") : ops[i].decl.max_fee = fee_setting.fee
        /\ Printed("class_hash") # {}

\* C5 (amended): with a manual fee F, the class not found and no simulation,
\* the run issues no estimate_fee and at most one send, every declaration it
\* sends carries max fee exactly F on either path, the class hash is printed
\* only after a successful send, and a run that ends successfully has sent
\* exactly one declaration and then printed the class hash; on the Legacy
\* path, where nothing can fail between the check and send, send is always
\* issued.
C5_ManualFeeSentAsIs ==
    (/\ fee_setting.kind = "Manual"
     /\ ~simulate
     /\ GetClassAnswer = "ClassHashNotFound") =>
        /\ Count("estimate_fee") = 0
        /\ Count("send") <= 1
        /\ \A i \in OpsNamed("send") : ops[i].decl.max_fee = fee_setting.fee
        /\ IsSome(declaration.max_fee) => declaration.max_fee = fee_setting.fee
        /\ Printed("class_hash") # {} =>
              \E i \in OpsNamed("send") : ops[i].ret = "Ok"
        /\ result = "ok" =>
              /\ Count("send") = 1
              /\ stdout = <<[what |-> "class_hash", val |-> class.class_hash]>>
        /\ (class.kind = "legacy" /\ pc = "done") => Count("send") = 1

\* C5 witness: the Legacy scenario: manual fee, class not found, one
\* declaration sent with that fee, class hash printed.
C5_Witness ==
    /\ fee_setting.kind = "Manual"
    /\ ~simulate
    /\ class.kind = "legacy"
    /\ GetClassAnswer = "ClassHashNotFound"
    /\ \E i \in OpsNamed("send") : ops[i].decl.max_fee = fee_setting.fee
    /\ result = "ok"
    /\ Printed("class_hash") # {}

\* Kind detection has run to its end: the run is past the three parse
\* attempts and did not stop before or inside them on an error of argument
\* validation, of provider / account construction or of opening the file.
KindDetected ==
    /\ pc \notin {"into_setting", "validate", "into_provider", "into_account",
                  "parse_sierra", "parse_casm", "parse_legacy"}
    /\ error.msg \notin {"invalid fee arguments",
                         "--simulate cannot be used with --estimate-only",
                         "into_provider", "into_account", "io"}

ProviderOps == {"get_class", "estimate_fee", "simulate", "send"}
IssuedToProvider == {i \in 1 .. Len(ops) : ops[i].op \in ProviderOps}

\* C6 as stated: every artifact that parses as a compiled-class (CASM)
\* document is rejected with "unexpected CASM class" and no get_class,
\* estimate_fee, simulate or send is issued for it.
C6_EveryCasmRejected ==
    artifact.casm =>
        /\ IssuedToProvider = {}
        /\ KindDetected => error.msg = "unexpected CASM class"

\* C6 (amended): every artifact that does not parse as a SierraClass and
\* parses as a CASM document is rejected with "unexpected CASM class" and is
\* never declared; an artifact that also parses as a SierraClass is taken as
\* a Sierra class, the CASM parse is never attempted.
C6_CasmRejectedUnlessSierra ==
    /\ (~artifact.sierra /\ artifact.casm) =>
          /\ IssuedToProvider = {}
          /\ class.kind = "none"
          /\ declaration = NoDeclaration
          /\ KindDetected => (pc = "done" /\ error.msg = "unexpected CASM class")
    /\ (artifact.sierra /\ artifact.casm /\ KindDetected) =>
          /\ class.kind = "sierra"
          /\ error.msg # "unexpected CASM class"
          /\ opens = 1

\* C6 witness: a CASM document that is no Sierra class (but would parse as a
\* Legacy class) has been rejected.
C6_Witness ==
    /\ ~artifact.sierra
    /\ artifact.casm
    /\ artifact.legacy
    /\ pc = "done"
    /\ error.msg = "unexpected CASM class"

\* C7 as stated: an artifact that fails to parse as SierraClass and parses
\* as LegacyClass takes the Legacy path, and the generic parse error is
\* reported exactly when the artifact parses as neither class shape.
C7_LegacyWheneverNotSierra ==
    KindDetected =>
        /\ (~artifact.sierra /\ artifact.legacy) => class.kind = "legacy"
        /\ error.msg = "failed to parse contract artifact"
              <=> (~artifact.sierra /\ ~artifact.legacy)

\* C7 (amended): an artifact that fails to parse as SierraClass and as a
\* CASM document and parses as LegacyClass takes the Legacy path (existence
\* check on the legacy class, then fee resolution), and the generic parse
\* error is reported exactly when the artifact parses as none of the three
\* shapes.
C7_KindDetection ==
    KindDetected =>
        /\ (~artifact.sierra /\ ~artifact.casm /\ artifact.legacy) =>
              /\ class.kind = "legacy"
              /\ \A i \in IssuedToProvider : ops[i].decl.kind = "legacy"
              /\ (pc \notin {"check_already_declared", "done"}) =>
                    (Count("get_class") = 1 /\ Count("get_casm_hash") = 0)
        /\ error.msg = "failed to parse contract artifact"
              <=> (~artifact.sierra /\ ~artifact.casm /\ ~artifact.legacy)

\* C7 witness: a Legacy-only artifact has passed the existence check and
\* stands at fee resolution.
C7_Witness ==
    /\ ~artifact.sierra
    /\ ~artifact.casm
    /\ artifact.legacy
    /\ class.kind = "legacy"
    /\ Count("get_class") = 1
    /\ pc = "fee"

\* C8: when simulate is requested together with the estimate-only fee
\* setting, the run fails with the validation error before the provider or
\* the account is constructed and before the artifact is opened, and no
\* get_class, estimate_fee, simulate or send (nor anything else) is issued.
C8_SimulateWithEstimateOnlyRejected ==
    (simulate /\ is_estimate_only(fee_setting)) =>
        /\ pc \in {"into_setting", "validate", "done"}
        /\ ~provider
        /\ ~account
        /\ opens = 0
        /\ ops = <<>>
        /\ stdout = <<>>
        /\ pc = "done" =>
              /\ result = "err"
              /\ error = Err("--simulate cannot be used with --estimate-only")

\* C8 witness: such a run has ended with the validation error.
C8_Witness ==
    /\ simulate
    /\ is_estimate_only(fee_setting)
    /\ pc = "done"
    /\ error.msg = "--simulate cannot be used with --estimate-only"

CompilerOps == {"BuiltInCompiler::compile", "CompilerBinary::compile", "Command"}

\* C9: on the Sierra path with a literal-hash CasmHashSource of value H,
\* neither the in-process compiler nor the compiler binary is invoked (no
\* temporary file, no subprocess), and the compiled-class hash of every
\* declaration that is estimated, simulated or sent is H.
C9_LiteralHashVerbatim ==
    (class.kind = "sierra" /\ casm_source.kind = "Hash") =>
        /\ \A i \in 1 .. Len(ops) : ops[i].op \notin CompilerOps
        /\ input_file = NoFile
        /\ process_output = NoOutput
        /\ \A i \in 1 .. Len(ops) :
              ops[i].op \in {"estimate_fee", "simulate", "send"} =>
                  ops[i].decl.casm_class_hash = casm_source.hash
        /\ declaration # NoDeclaration => declaration.casm_class_hash = casm_source.hash

\* C9 witness: a Sierra declaration with a literal hash has been estimated
\* and sent.
C9_Witness ==
    /\ class.kind = "sierra"
    /\ casm_source.kind = "Hash"
    /\ Count("estimate_fee") = 1
    /\ \E i \in OpsNamed("send") :
          ops[i].ret = "Ok" /\ ops[i].decl.casm_class_hash = casm_source.hash

InCompile == pc \in {"compile_write", "compile_run", "compile_output"}

\* C10: CompilerBinary::compile owns its temporary input file: whenever the
\* call has returned, on whichever exit path, the file is no longer on disk;
\* and a non-zero exit status of the subprocess yields an error carrying
\* that status and never a hash.
C10_TempFileRemoved ==
    /\ ~InCompile => input_file.state # "exists"
    /\ (~InCompile /\ Count("CompilerBinary::compile") > 0) =>
          (input_file.state = "removed" \/ error = Err("tempfile"))
    /\ (~InCompile /\ process_output # NoOutput /\ process_output.status # Some(0)) =>
          /\ result = "err"
          /\ error.status = process_output.status
          /\ error.msg = "Sierra compiler process failed with exit code"
          /\ casm_class_hash = None
          /\ declaration = NoDeclaration

\* C10 witness: the subprocess exited with status 1 on well-formed output,
\* compile has returned and the file is gone.
C10_Witness ==
    /\ process_output.status = Some(1)
    /\ process_output.stdout = "casm"
    /\ IsSome(process_output.hash)
    /\ pc = "done"
    /\ input_file.state = "removed"

\* The status queries of the poller, in the order issued.
IsStatusQuery(o) == o.op = "get_transaction_status"
StatusQueries == SelectSeq(ops, IsStatusQuery)

\* C11: the poller issues its status queries one at a time, consecutive
\* queries separated by one sleep of the poll interval; a query is issued
\* only after every earlier one was answered "pending", so k pending answers
\* followed by "accepted" make exactly k + 1 queries and the poller returns
\* success; "rejected" makes it return an error; while the last answer is
\* "pending" the poller has not returned.
C11_Poller ==
    LET q == StatusQueries
        n == Len(q)
    IN  /\ polls = n
        /\ n > 0 => (watch /\ \E i \in OpsNamed("send") : ops[i].ret = "Ok")
        /\ \A i \in 1 .. n - 1 : q[i].ret = "pending"
        /\ \A i \in OpsNamed("get_transaction_status") :
              (ops[i].ret = "pending" /\ i < Len(ops)) =>
                  /\ ops[i + 1].op = "sleep"
                  /\ ops[i + 1].val = Some(poll_interval)
                  /\ i + 1 < Len(ops) => ops[i + 2].op = "get_transaction_status"
        /\ (n > 0 /\ q[n].ret = "pending") =>
              /\ pc \in {"watch_sleep", "watch_tx"}
              /\ result = "running"
        /\ \A i \in OpsNamed("sleep") : i > 1 /\ ops[i - 1].ret = "pending"
        /\ (n > 0 /\ q[n].ret = "accepted") =>
              /\ pc \in {"declared", "done"}
              /\ result # "err"
              /\ Cardinality({i \in 1 .. n : q[i].ret = "pending"}) = n - 1
        /\ (n > 0 /\ q[n].ret = "rejected") =>
              /\ pc = "done"
              /\ result = "err"
              /\ error = Err("transaction rejected")

\* C11 witness: pending, pending, accepted: three queries, two sleeps, and
\* the poller has returned success.
C11_Witness ==
    /\ Len(StatusQueries) = 3
    /\ StatusQueries[1].ret = "pending"
    /\ StatusQueries[2].ret = "pending"
    /\ StatusQueries[3].ret = "accepted"
    /\ Count("sleep") = 2
    /\ result = "ok"

\* The four terminal outcomes of a successful run.
SendReturned == \E i \in OpsNamed("send") : ops[i].ret = "Ok" /\ ops[i].val = declaration_tx_hash

OutcomeAlreadyDeclared ==
    /\ GetClassAnswer = "Ok"
    /\ stdout = <<[what |-> "class_hash", val |-> class.class_hash]>>

OutcomeEstimate ==
    /\ is_estimate_only(fee_setting)
    /\ \E e \in Estimates : stdout = <<[what |-> "fee", val |-> e]>>

OutcomeSimulation ==
    /\ simulate
    /\ \E i \in OpsNamed("simulate") : ops[i].ret = "Ok"
    /\ stdout = <<[what |-> "simulation", val |-> None]>>

OutcomeDeclared ==
    /\ ~is_estimate_only(fee_setting)
    /\ ~simulate
    /\ GetClassAnswer = "ClassHashNotFound"
    /\ SendReturned
    /\ stdout = <<[what |-> "class_hash", val |-> class.class_hash]>>

\* C12: every successful run ends in exactly one of the four outcomes
\* (already declared, estimate, simulation, declared) with exactly one result
\* on standard output; no run writes more than one result; and the class
\* hash of a class that was not already declared is printed only after send
\* has returned a transaction hash.
C12_OneOutcome ==
    /\ Len(stdout) <= 1
    /\ result = "ok" =>
          /\ Len(stdout) = 1
          /\ Cardinality({o \in {"already", "estimate", "simulation", "declared"} :
                 \/ o = "already" /\ OutcomeAlreadyDeclared
                 \/ o = "estimate" /\ OutcomeEstimate
                 \/ o = "simulation" /\ OutcomeSimulation
                 \/ o = "declared" /\ OutcomeDeclared}) = 1
    /\ (Printed("class_hash") # {} /\ GetClassAnswer # "Ok") =>
          (SendReturned /\ IsSome(declaration_tx_hash))
    /\ (Printed("fee") # {} \/ Printed("simulation") # {}) => Count("send") = 0

\* C12 witness: the declared outcome, after send returned a transaction hash.
C12_Witness ==
    /\ result = "ok"
    /\ OutcomeDeclared
    /\ class.kind = "sierra"

\* The step of the orchestrator an operation belongs to.
Stage(o) ==
    CASE o.op = "class_hash" -> 1
      [] o.op = "get_class" -> 2
      [] o.op \in {"get_casm_hash"} \cup CompilerOps -> 3
      [] o.op = "estimate_fee" -> 4
      [] o.op \in {"simulate", "send"} -> 5
      [] OTHER -> 6

\* The operation returned what lets the run go on to the next one.
Succeeded(o) ==
    CASE o.op = "get_class" -> o.ret = "ClassHashNotFound"
      [] o.op = "get_casm_hash" -> o.ret \in {"Ok", "-"}
      [] o.op = "get_transaction_status" -> o.ret \in {"pending", "accepted"}
      [] OTHER -> o.ret = "Ok"

\* C13: the operations of a run occur in the order kind detection (class
\* hash), get_class, compiled-class hash resolution (Sierra only),
\* estimate_fee (exactly when the fee is not manual), simulate or send,
\* confirmation polling; each of the first, second, fourth and fifth step
\* occurs at most once, and an operation is issued only after every earlier
\* one has returned successfully (for get_class: with ClassHashNotFound).
C13_StrictSequence ==
    /\ \A i, j \in 1 .. Len(ops) :
          i < j =>
              /\ Stage(ops[i]) <= Stage(ops[j])
              /\ Stage(ops[i]) \in {1, 2, 4, 5} => Stage(ops[i]) < Stage(ops[j])
              /\ Succeeded(ops[i])
    /\ \A j \in 1 .. Len(ops) :
          /\ Stage(ops[j]) >= 2 => Count("class_hash") = 1
          /\ Stage(ops[j]) >= 3 => Count("get_class") = 1
          /\ Stage(ops[j]) = 3 => class.kind = "sierra"
          /\ (Stage(ops[j]) >= 4 /\ class.kind = "sierra") =>
                (Count("get_casm_hash") = 1 /\ IsSome(casm_class_hash))
          /\ Stage(ops[j]) = 4 => fee_setting.kind # "Manual"
          /\ Stage(ops[j]) = 5 =>
                (fee_setting.kind # "Manual" <=> Count("estimate_fee") = 1)
          /\ Stage(ops[j]) = 6 => Count("send") = 1

\* C13 witness: a Sierra run went through every step: class hash, get_class,
\* hash resolution by the compiler binary, estimate_fee, send, two polls.
C13_Witness ==
    /\ class.kind = "sierra"
    /\ casm_source.kind = "CompilerBinary"
    /\ Count("estimate_fee") = 1
    /\ Count("send") = 1
    /\ Len(StatusQueries) = 2
    /\ result = "ok"

\* The operation returned an error (for get_class: any answer that ends the
\* run with an error).
Errored(o) ==
    \/ o.ret \in {"Err", "OtherError"}
    \/ o.op = "get_transaction_status" /\ o.ret \in {"rejected", "error"}

\* C14 as stated: each of get_class, estimate_fee, simulate and send is
\* invoked at most once, and after any of them (or hash resolution) returned
\* an error, ClassHashNotFound included, nothing further is issued and the
\* run has ended with an error.
C14_AnyErrorEndsRun ==
    /\ \A name \in ProviderOps : Count(name) <= 1
    /\ \A i \in 1 .. Len(ops) :
          (Errored(ops[i]) \/ (ops[i].op = "get_class" /\ ops[i].ret # "Ok")) =>
              /\ i = Len(ops)
              /\ pc = "done"
              /\ result = "err"

\* C14 (amended): no retries: get_class, estimate_fee, simulate and send are
\* each invoked at most once in a run, and an operation that returned an
\* error other than get_class's ClassHashNotFound (hash resolution included)
\* is the last operation of the run, which has ended with that error; after
\* ClassHashNotFound the run continues.
C14_NoRetries ==
    /\ \A name \in ProviderOps : Count(name) <= 1
    /\ Count("simulate") + Count("send") <= 1
    /\ Count("get_casm_hash") <= 1
    /\ \A i \in 1 .. Len(ops) :
          Errored(ops[i]) =>
              /\ i = Len(ops)
              /\ pc = "done"
              /\ result = "err"
              /\ error # NoError
              /\ stdout = <<>>
    /\ \A i \in OpsNamed("get_class") :
          (ops[i].ret = "ClassHashNotFound" /\ i = Len(ops)) =>
              error # Err("provider")

\* C14 witness: send failed after a successful estimate; nothing followed.
C14_Witness ==
    /\ Count("estimate_fee") = 1
    /\ \E i \in OpsNamed("send") : ops[i].ret = "Err" /\ i = Len(ops)
    /\ error = Err("send")


\* C15: once get_class has answered with a class, whatever the fee setting
\* and the simulate flag, the run has issued no compiled-class hash
\* resolution, no estimate_fee, no simulate and no send, has built no
\* declaration, and its standard output is exactly the existing class hash.
C15_ShortCircuitBeforeEveryMode ==
    GetClassAnswer = "Ok" =>
        /\ IssuedAfterCheck = {}
        /\ casm_class_hash = None
        /\ declaration = NoDeclaration
        /\ stdout = <<[what |-> "class_hash", val |-> class.class_hash]>>
        /\ stderr = <<"already declared">>
        /\ result = "ok"

\* C15 witness: the class existed in a run that asked for estimate-only with
\* simulation off, and in that run only the class hash was reported.
C15_Witness ==
    /\ GetClassAnswer = "Ok"
    /\ is_estimate_only(fee_setting)
    /\ class.kind = "sierra"
    /\ Printed("class_hash") = {1}
    /\ pc = "done"


\* The poller's return: the answer to its last status query.
PollerReturned(r) ==
    /\ Len(StatusQueries) > 0
    /\ poll_result(StatusQueries[Len(StatusQueries)].ret) = r

\* C16: with watch requested, the class hash of a declared class is on
\* standard output only after the poller has returned success; when the
\* poller has returned an error the run has failed, send had succeeded, the
\* transaction hash was reported on standard error before the poller was
\* entered, and nothing is on standard output.
C16_ClassHashAfterPoller ==
    /\ (watch /\ Printed("class_hash") # {} /\ GetClassAnswer # "Ok") =>
          PollerReturned("Ok")
    /\ (watch /\ SendReturned /\ ~PollerReturned("Ok")) => stdout = <<>>
    /\ Len(StatusQueries) > 0 =>
          /\ SendReturned
          /\ \E i \in 1 .. Len(stderr) : stderr[i] = "Contract declaration transaction"
    /\ PollerReturned("Err") =>
          /\ pc = "done"
          /\ result = "err"
          /\ error \in {Err("transaction rejected"), Err("provider")}
          /\ SendReturned
          /\ \E i \in 1 .. Len(stderr) : stderr[i] = "Contract declaration transaction"
          /\ stdout = <<>>

\* C16 witness: send succeeded, the transaction hash was reported, the
\* poller saw the transaction rejected and the run failed without printing
\* the class hash.
C16_Witness ==
    /\ watch
    /\ SendReturned
    /\ PollerReturned("Err")
    /\ StatusQueries[Len(StatusQueries)].ret = "rejected"
    /\ result = "err"
    /\ stdout = <<>>


\* C17: with the automatic fee setting, for every raw estimate E returned by
\* estimate_fee, the max fee attached to the declaration is never less than
\* E, with either provider dialect.  (The claim as stated; the field
\* multiplication of declare.rs:158 / 221 wraps around for large E.)
C17_MaxFeeNotBelowEstimate ==
    (fee_setting.kind = "None" /\ IsSome(declaration.max_fee)) =>
        \A e \in Estimates : Unwrap(declaration.max_fee) >= Unwrap(e)


\* The steps of the Sierra path that hash or compile the class.
HashOrCompileOps == {"class_hash"} \cup CompilerOps

CompileReturns ==
    {i \in 1 .. Len(ops) :
        ops[i].op \in {"BuiltInCompiler::compile", "CompilerBinary::compile"}}

\* C19: the compilers leave the caller's Sierra class unchanged: at every
\* point of a run, during and after a compile and whether it returned a hash
\* or an error, the class held by Declare::run has the ABI of the artifact
\* as parsed, and so have the declaration and every declaration that was
\* estimated, simulated or sent.
C19_CallerClassUnchanged ==
    /\ class.kind = "sierra" => class.abi = artifact.abi
    /\ declaration # NoDeclaration => declaration.abi = artifact.abi
    /\ \A i \in 1 .. Len(ops) :
          ops[i].op \in {"get_casm_hash", "estimate_fee", "simulate", "send"} =>
              ops[i].decl.abi = artifact.abi

\* C19 witness: a Sierra artifact with a non-empty ABI went through a
\* compiler, which worked on an ABI-less class, and the declaration that was
\* sent carried the original ABI.
C19_Witness ==
    /\ artifact.abi # <<>>
    /\ \E i \in CompileReturns : ops[i].ret = "Ok" /\ ops[i].decl.abi = <<>>
    /\ \E i \in OpsNamed("send") : ops[i].decl.abi = artifact.abi /\ ops[i].decl.kind = "sierra"

\* C19 witness on an error path of the compiler: the compile failed and the
\* caller's class still has its ABI.
C19_WitnessErr ==
    /\ artifact.abi # <<>>
    /\ \E i \in CompileReturns : ops[i].ret = "Err"
    /\ class.abi = artifact.abi


\* Calls that submit the declaration for simulation or inclusion.
Submissions == OpsNamed("simulate") \cup OpsNamed("send")

\* C20: the nonce override is applied after fee resolution: on the Sierra
\* and on the Legacy path, every estimate_fee call is made on a declaration
\* with neither nonce nor max fee set, and every simulate or send call
\* carries the caller's nonce (none if the caller gave none) and the
\* resolved max fee.
C20_NonceAfterFeeResolution ==
    /\ \A i \in OpsNamed("estimate_fee") :
          /\ ops[i].decl.nonce = None
          /\ ops[i].decl.max_fee = None
          /\ \A j \in Submissions : i < j
    /\ \A i \in Submissions :
          /\ ops[i].decl.nonce = nonce
          /\ IsSome(ops[i].decl.max_fee)
          /\ ops[i].decl.max_fee = declaration.max_fee
          /\ fee_setting.kind = "Manual" => ops[i].decl.max_fee = fee_setting.fee
          /\ fee_setting.kind = "None" =>
                \E e \in Estimates :
                    ops[i].decl.max_fee = Some(buffered_fee(Unwrap(e), is_rpc))

\* C20 witness: the caller gave a nonce; the estimate was made without it
\* and the send that followed carried it, on the Legacy path.
C20_Witness ==
    /\ IsSome(nonce)
    /\ class.kind = "legacy"
    /\ \E i \in OpsNamed("estimate_fee") : ops[i].decl.nonce = None
    /\ \E i \in OpsNamed("send") : ops[i].decl.nonce = nonce /\ IsSome(ops[i].decl.max_fee)

====
